---- MODULE Spec2Model ----
(***************************************************************************)
(* BayesianHierarchicalGoalModel (penaltyblog/models/                      *)
(* bayesian_hierarchical.py) as a state machine: one model instance, the   *)
(* caller that constructs it and calls fit / predict / get_params on it,   *)
(* and the dict object the instance keeps its parameters in.               *)
(*                                                                         *)
(* Python strings are sequences of code points, so that sorting and        *)
(* concatenation are computed.  Team names are tagged with their Python    *)
(* type (str or int).  Real numbers are exact rationals <<num, den>>.      *)
(* fit() is split at each write to the instance (each one dict store or    *)
(* attribute store, atomic under the interpreter lock), so that the calls  *)
(* of another thread interleave with it.                                   *)
(*                                                                         *)
(* What the sampler returns is not decided by this file: pm.sample either  *)
(* raises or returns any samples of the space a specification gives it.    *)
(* The constructor is given lists of one length, integer goals, and team   *)
(* names of one type.  exp and the Poisson grid of predict are left out:   *)
(* predict's value is the pair of log rates.                               *)
(***************************************************************************)
EXTENDS Integers, Sequences, FiniteSets, TLC

VARIABLES
    phase,          \* "new" before __init__, "live" once it returned
    fixtures,       \* self.fixtures: the rows of the DataFrame
    teams,          \* self.teams: row i+1 holds the team with team_index i
    n_teams,        \* self.n_teams
    trace,          \* self.trace
    params,         \* self.params: a reference into heap
    fitted,         \* self.fitted
    heap,           \* the dict objects, by reference
    fit_pc,         \* where the fit() call in progress stands (a source line)
    fit_idx,        \* idx of the loop at lines 161-167
    result,         \* what the last completed call gave its caller
    held,           \* the reference get_params() last gave the caller (0: none)
    fits_started,   \* history: fit() calls begun
    fits_done,      \* history: fit() calls that reached line 169
    published,      \* history: the store's contents at each line 169
    caller_writes   \* history: caller's writes through `held`

vars == <<phase, fixtures, teams, n_teams, trace, params, fitted, heap,
          fit_pc, fit_idx, result, held, fits_started, fits_done, published,
          caller_writes>>

---------------------------------------------------------------------------
(* Bounds *)

MaxFixtures == 3
MaxFits == 2
MaxSamples == 2
MaxCallerWrites == 1

---------------------------------------------------------------------------
(* Python values *)

\* str values, as code points
S_A == <<65>>
S_AB == <<65, 66>>
S_B == <<66>>
S_C == <<67>>
S_a == <<97>>
S_X == <<88>>
S_home == <<104, 111, 109, 101>>
S_intercept == <<105, 110, 116, 101, 114, 99, 101, 112, 116>>
S_attack_ == <<97, 116, 116, 97, 99, 107, 95>>
S_defence_ == <<100, 101, 102, 101, 110, 99, 101, 95>>
S_home_advantage == <<104, 111, 109, 101, 95, 97, 100, 118, 97, 110, 116, 97, 103, 101>>
S_junk == <<120>>

PyStr(cp) == [kind |-> "str", cp |-> cp]
PyInt(i) == [kind |-> "int", cp |-> <<i>>]

\* as StrLess, but a shorter str first
StrLessByLength(a, b) ==
    \/ Len(a) < Len(b)
    \/ /\ Len(a) = Len(b)
       /\ \E i \in 1..Len(b) :
            /\ \A j \in 1..(i - 1) : a[j] = b[j]
            /\ a[i] < b[i]

\* a < b on two str: the first differing code point decides, a proper prefix is less
StrLess(a, b) ==
    \E i \in 1..(Len(b)) :
        /\ \A j \in 1..(i - 1) : j <= Len(a) /\ a[j] = b[j]
        /\ \/ i = Len(a) + 1
           \/ i <= Len(a) /\ a[i] < b[i]

\* a < b as sort_values compares two values of one type
TeamLess(a, b) ==
    IF a.kind = "str" THEN StrLess(a.cp, b.cp) ELSE a.cp[1] < b.cp[1]

\* exact rationals, den > 0, in lowest terms
RECURSIVE GCD(_, _)
GCD(a, b) == IF b = 0 THEN a ELSE GCD(b, a % b)

Abs(x) == IF x < 0 THEN -x ELSE x

Rat(n, d) ==
    LET g == GCD(Abs(n), Abs(d))
        s == IF d < 0 THEN -1 ELSE 1
    IN  <<(s * n) \div g, (s * d) \div g>>

RAdd(x, y) == Rat(x[1] * y[2] + y[1] * x[2], x[2] * y[2])
RSub(x, y) == Rat(x[1] * y[2] - y[1] * x[2], x[2] * y[2])
RDiv(x, k) == Rat(x[1], x[2] * k)

RECURSIVE RSum(_)
RSum(xs) == IF xs = <<>> THEN <<0, 1>> ELSE RAdd(Head(xs), RSum(Tail(xs)))

\* np.mean / tt.mean of a non-empty vector
Mean(xs) == RDiv(RSum(xs), Len(xs))

\* dict operations
EmptyDict == [k \in {} |-> <<0, 1>>]
DictSet(d, k, v) == [x \in (DOMAIN d) \cup {k} |-> IF x = k THEN v ELSE d[x]]
DictDel(d, k) == [x \in (DOMAIN d) \ {k} |-> d[x]]

---------------------------------------------------------------------------
(* __init__ *)

\* the index column of a left merge for a key with no match
NaN == -1

\* self.fixtures["team_home"].unique()
UniqueHome(inp) == {inp.teams_home[i] : i \in 1..Len(inp.teams_home)}

\* drop_duplicates().sort_values("team_home").reset_index(drop=True)
SortedTeams(S) ==
    [i \in 1..Cardinality(S) |->
        CHOOSE t \in S : Cardinality({u \in S : TeamLess(u, t)}) = i - 1]

\* merge(self.teams, ..., how="left"): the team_index of team t
TeamIndex(tms, t) ==
    IF \E i \in 1..Len(tms) : tms[i] = t
    THEN (CHOOSE i \in 1..Len(tms) : tms[i] = t) - 1
    ELSE NaN

\* self.fixtures["weights"] = weights: a scalar is broadcast, a list is taken row by row
WeightOf(w, i) == IF w.kind = "scalar" THEN w.vals[1] ELSE w.vals[i]

\* the fixtures DataFrame after lines 60-96
BuildFixtures(inp, tms) ==
    [i \in 1..Len(inp.goals_home) |->
        [goals_home |-> inp.goals_home[i],
         goals_away |-> inp.goals_away[i],
         team_home  |-> inp.teams_home[i],
         team_away  |-> inp.teams_away[i],
         weights    |-> WeightOf(inp.weights, i),
         home_index |-> TeamIndex(tms, inp.teams_home[i]),
         away_index |-> TeamIndex(tms, inp.teams_away[i])]]

NoTrace == [home |-> <<>>, intercept |-> <<>>, atts |-> <<>>, defs |-> <<>>]

NoResult ==
    [op |-> "none", home_team |-> PyStr(<<>>), away_team |-> PyStr(<<>>),
     exc |-> "", msg |-> "", value |-> EmptyDict, done_at_call |-> 0]

\* __init__(goals_home, goals_away, teams_home, teams_away, weights)
Construct(space) ==
    /\ phase = "new"
    /\ \E inp \in space :
         LET tms == SortedTeams(UniqueHome(inp))
         IN  /\ n_teams' = Cardinality(UniqueHome(inp))
             /\ teams' = tms
             /\ fixtures' = BuildFixtures(inp, tms)
    /\ trace' = NoTrace
    /\ heap' = <<EmptyDict>>
    /\ params' = 1
    /\ fitted' = FALSE
    /\ phase' = "live"
    /\ UNCHANGED <<fit_pc, fit_idx, result, held, fits_started, fits_done,
                   published, caller_writes>>

---------------------------------------------------------------------------
(* Input spaces *)

Row(gh, ga, th, ta, w) ==
    [goals_home |-> gh, goals_away |-> ga, team_home |-> th, team_away |-> ta,
     weight |-> w]

\* the constructor's arguments for the matches rs: four parallel lists and weights w
Arguments(rs, w) ==
    [goals_home |-> [i \in 1..Len(rs) |-> rs[i].goals_home],
     goals_away |-> [i \in 1..Len(rs) |-> rs[i].goals_away],
     teams_home |-> [i \in 1..Len(rs) |-> rs[i].team_home],
     teams_away |-> [i \in 1..Len(rs) |-> rs[i].team_away],
     weights    |-> w]

\* the weights as a list, or as a scalar when every match has the same weight
WeightArguments(rs) ==
    {[kind |-> "list", vals |-> [i \in 1..Len(rs) |-> rs[i].weight]]}
        \cup {[kind |-> "scalar", vals |-> <<rs[1].weight>>] : x \in
                {y \in {1} : \A i \in 1..Len(rs) : rs[i].weight = rs[1].weight}}

\* every list of 1..MaxFixtures matches drawn from rows
Inputs(rows) ==
    UNION {{Arguments(rs, w) : w \in WeightArguments(rs)} :
            rs \in UNION {[1..n -> rows] : n \in 1..MaxFixtures}}

\* the first 1..MaxFixtures matches of a fixed list
Prefixes(season) ==
    UNION {{Arguments(SubSeq(season, 1, n), w) :
                w \in WeightArguments(SubSeq(season, 1, n))} :
            n \in 1..MaxFixtures}

\* str-named teams, with an away-only team from the third match on;
\* int-named teams
LifecycleInputs ==
    Prefixes(<<Row(1, 0, PyStr(S_A), PyStr(S_B), 1),
               Row(2, 2, PyStr(S_B), PyStr(S_A), 1),
               Row(0, 1, PyStr(S_A), PyStr(S_C), 1),
               Row(0, 0, PyStr(S_B), PyStr(S_C), 1)>>)
        \cup Prefixes(<<Row(1, 0, PyInt(1), PyInt(2), 1),
                        Row(0, 0, PyInt(2), PyInt(1), 1),
                        Row(3, 0, PyInt(1), PyInt(2), 1),
                        Row(1, 1, PyInt(2), PyInt(1), 1)>>)

CallerInputs ==
    Prefixes(<<Row(1, 0, PyStr(S_A), PyStr(S_B), 1),
               Row(2, 2, PyStr(S_B), PyStr(S_A), 1),
               Row(0, 1, PyStr(S_A), PyStr(S_B), 1),
               Row(0, 0, PyStr(S_B), PyStr(S_A), 1)>>)

\* home teams in every order of appearance; negative goals and weights
ConstructInputs ==
    Inputs({Row(1, 0, PyStr(t), PyStr(S_A), 1) : t \in {S_A, S_AB, S_B, S_a}})
        \cup Inputs({Row(-1, 0, PyStr(S_A), PyStr(S_B), 1),
                     Row(0, -1, PyStr(S_A), PyStr(S_B), 1),
                     Row(1, 1, PyStr(S_A), PyStr(S_B), -1),
                     Row(1, 0, PyStr(S_B), PyStr(S_A), 1)})

\* a league of as many teams as matches
CentringInputs ==
    Prefixes(<<Row(1, 0, PyStr(S_B), PyStr(S_A), 1),
               Row(0, 0, PyStr(S_A), PyStr(S_C), 1),
               Row(2, 1, PyStr(S_C), PyStr(S_B), 1),
               Row(0, 3, PyStr(S_X), PyStr(S_A), 1)>>)

---------------------------------------------------------------------------
(* fit *)

\* as Centre, without the subtraction
CentreNot(x) == x

\* pm.Deterministic("atts", atts_star - tt.mean(atts_star)), on one sample
Centre(x) == [i \in 1..Len(x) |-> RSub(x[i], Mean(x))]

\* what pm.sample returns for the variables fit() reads: m pooled samples
MultiTrace(raw) ==
    [home      |-> raw.home,
     intercept |-> raw.intercept,
     atts      |-> [s \in 1..Len(raw.atts_star) |-> Centre(raw.atts_star[s])],
     defs      |-> [s \in 1..Len(raw.def_star) |-> Centre(raw.def_star[s])]]

\* [x[idx] for x in self.trace[name]]
Column(samples, idx) == [s \in 1..Len(samples) |-> samples[s][idx + 1]]

\* as AttackKey, keyed by the team's index ("attack_0", ...)
AttackKeyByIndex(team) ==
    S_attack_ \o <<48 + (CHOOSE i \in 1..Len(teams) : teams[i] = team) - 1>>

\* "attack_" + row["team"], "defence_" + row["team"]
AttackKey(team) == S_attack_ \o team.cp
DefenceKey(team) == S_defence_ \o team.cp

Returned(op) ==
    [op |-> op, home_team |-> PyStr(<<>>), away_team |-> PyStr(<<>>),
     exc |-> "", msg |-> "", value |-> EmptyDict, done_at_call |-> fits_done]

Raised(op, exc, msg) == [Returned(op) EXCEPT !.exc = exc, !.msg = msg]

\* lines 116-157: the sampler returns and self.trace is assigned
FitSample(space, limit) ==
    /\ phase = "live"
    /\ fit_pc = "idle"
    /\ fits_started < limit
    /\ \E raw \in space : trace' = MultiTrace(raw)
    /\ fit_pc' = "l159"
    /\ fits_started' = fits_started + 1
    /\ UNCHANGED <<phase, fixtures, teams, n_teams, params, fitted, heap,
                   fit_idx, result, held, fits_done, published, caller_writes>>

\* lines 116-157: the sampler raises, and fit() with it
FitSampleRaises ==
    /\ phase = "live"
    /\ fit_pc = "idle"
    /\ fits_started < MaxFits
    /\ fits_started' = fits_started + 1
    /\ result' = Raised("fit", "SamplingError", "")
    /\ UNCHANGED <<phase, fixtures, teams, n_teams, trace, params, fitted,
                   heap, fit_pc, fit_idx, held, fits_done, published,
                   caller_writes>>

\* line 159
FitStoreHome ==
    /\ fit_pc = "l159"
    /\ heap' = [heap EXCEPT ![params] = DictSet(@, S_home, Mean(trace.home))]
    /\ fit_pc' = "l160"
    /\ UNCHANGED <<phase, fixtures, teams, n_teams, trace, params, fitted,
                   fit_idx, result, held, fits_started, fits_done, published,
                   caller_writes>>

\* line 160, and the loop's entry at line 161
FitStoreIntercept ==
    /\ fit_pc = "l160"
    /\ heap' = [heap EXCEPT
                  ![params] = DictSet(@, S_intercept, Mean(trace.intercept))]
    /\ fit_pc' = IF Len(teams) = 0 THEN "l169" ELSE "l162"
    /\ fit_idx' = 0
    /\ UNCHANGED <<phase, fixtures, teams, n_teams, trace, params, fitted,
                   result, held, fits_started, fits_done, published,
                   caller_writes>>

\* lines 162-164: the concatenation raises TypeError for a team that is no str
FitStoreAttack ==
    /\ fit_pc = "l162"
    /\ LET team == teams[fit_idx + 1]
       IN  IF team.kind = "str"
           THEN /\ heap' = [heap EXCEPT
                              ![params] = DictSet(@, AttackKey(team),
                                             Mean(Column(trace.atts, fit_idx)))]
                /\ fit_pc' = "l165"
                /\ UNCHANGED result
           ELSE /\ fit_pc' = "idle"
                /\ result' = Raised("fit", "TypeError", "")
                /\ UNCHANGED heap
    /\ UNCHANGED <<phase, fixtures, teams, n_teams, trace, params, fitted,
                   fit_idx, held, fits_started, fits_done, published,
                   caller_writes>>

\* lines 165-167, and the loop's next round
FitStoreDefence ==
    /\ fit_pc = "l165"
    /\ heap' = [heap EXCEPT
                  ![params] = DictSet(@, DefenceKey(teams[fit_idx + 1]),
                                 Mean(Column(trace.defs, fit_idx)))]
    /\ IF fit_idx + 1 < Len(teams)
       THEN fit_pc' = "l162" /\ fit_idx' = fit_idx + 1
       ELSE fit_pc' = "l169" /\ UNCHANGED fit_idx
    /\ UNCHANGED <<phase, fixtures, teams, n_teams, trace, params, fitted,
                   result, held, fits_started, fits_done, published,
                   caller_writes>>

\* line 169, and fit() returns
FitPublish ==
    /\ fit_pc = "l169"
    /\ fitted' = TRUE
    /\ fit_pc' = "idle"
    /\ fits_done' = fits_done + 1
    /\ published' = published \cup {heap[params]}
    /\ result' = Returned("fit")
    /\ UNCHANGED <<phase, fixtures, teams, n_teams, trace, params, heap,
                   fit_idx, held, fits_started, caller_writes>>

---------------------------------------------------------------------------
(* predict, get_params *)

\* the messages of lines 194-250 (the backquotes around fit() left out)
MsgPredictNotFitted ==
    "Model's parameters have not been fit yet, please call the fit() function before making any predictions"
MsgNoHome ==
    "No parameters for home team - please ensure the team was included in the training data"
MsgNoAway ==
    "No parameters for away team - please ensure the team was included in the training data"
MsgGetParamsNotFitted ==
    "Model's parameters have not been fit yet, please call the fit() function first"

\* self.teams["team"].tolist()
TeamList == {teams[i] : i \in 1..Len(teams)}

\* the keys lines 219-224 read, in order
PredictKeys(home_team, away_team) ==
    <<S_home, S_intercept, AttackKey(home_team), AttackKey(away_team),
      DefenceKey(home_team), DefenceKey(away_team)>>

\* lines 227-228, before exp: the two log rates
LogRates(d, home_team, away_team) ==
    [home_goals |-> RAdd(RAdd(d[S_intercept], d[S_home]),
                         RAdd(d[AttackKey(home_team)], d[DefenceKey(away_team)])),
     away_goals |-> RAdd(d[S_intercept],
                         RAdd(d[AttackKey(away_team)], d[DefenceKey(home_team)]))]

\* as PredictResult, without the check of away_team
PredictResultNoAwayCheck(home_team, away_team) ==
    LET call == [Returned("predict") EXCEPT
                    !.home_team = home_team, !.away_team = away_team]
        d == heap[params]
        ks == PredictKeys(home_team, away_team)
    IN  IF ~fitted
        THEN [call EXCEPT !.exc = "ValueError", !.msg = MsgPredictNotFitted]
        ELSE IF home_team \notin TeamList
        THEN [call EXCEPT !.exc = "ValueError", !.msg = MsgNoHome]
        ELSE IF home_team.kind # "str" \/ away_team.kind # "str"
        THEN [call EXCEPT !.exc = "TypeError"]
        ELSE IF \E i \in 1..Len(ks) : ks[i] \notin DOMAIN d
        THEN [call EXCEPT !.exc = "KeyError"]
        ELSE [call EXCEPT !.value = LogRates(d, home_team, away_team)]

\* lines 193-236
PredictResult(home_team, away_team) ==
    LET call == [Returned("predict") EXCEPT
                    !.home_team = home_team, !.away_team = away_team]
        d == heap[params]
        ks == PredictKeys(home_team, away_team)
    IN  IF ~fitted
        THEN [call EXCEPT !.exc = "ValueError", !.msg = MsgPredictNotFitted]
        ELSE IF home_team \notin TeamList
        THEN [call EXCEPT !.exc = "ValueError", !.msg = MsgNoHome]
        ELSE IF away_team \notin TeamList
        THEN [call EXCEPT !.exc = "ValueError", !.msg = MsgNoAway]
        ELSE IF home_team.kind # "str" \/ away_team.kind # "str"
        THEN [call EXCEPT !.exc = "TypeError"]
        ELSE IF \E i \in 1..Len(ks) : ks[i] \notin DOMAIN d
        THEN [call EXCEPT !.exc = "KeyError"]
        ELSE [call EXCEPT !.value = LogRates(d, home_team, away_team)]

Predict(home_team, away_team) ==
    /\ phase = "live"
    /\ result' = PredictResult(home_team, away_team)
    /\ UNCHANGED <<phase, fixtures, teams, n_teams, trace, params, fitted,
                   heap, fit_pc, fit_idx, held, fits_started, fits_done,
                   published, caller_writes>>

\* as GetParams, without the check of self.fitted
GetParamsUnchecked ==
    /\ phase = "live"
    /\ result' = [Returned("get_params") EXCEPT !.value = heap[params]]
    /\ held' = params
    /\ UNCHANGED <<phase, fixtures, teams, n_teams, trace, params, fitted,
                   heap, fit_pc, fit_idx, fits_started, fits_done, published,
                   caller_writes>>

\* lines 247-252: the caller gets self.params itself
GetParams ==
    /\ phase = "live"
    /\ IF ~fitted
       THEN /\ result' = Raised("get_params", "ValueError", MsgGetParamsNotFitted)
            /\ UNCHANGED held
       ELSE /\ result' = [Returned("get_params") EXCEPT !.value = heap[params]]
            /\ held' = params
    /\ UNCHANGED <<phase, fixtures, teams, n_teams, trace, params, fitted,
                   heap, fit_pc, fit_idx, fits_started, fits_done, published,
                   caller_writes>>

\* the caller: d[k] = v on the mapping get_params() returned
CallerSet(k, v) ==
    /\ held # 0
    /\ caller_writes < MaxCallerWrites
    /\ heap' = [heap EXCEPT ![held] = DictSet(@, k, v)]
    /\ caller_writes' = caller_writes + 1
    /\ UNCHANGED <<phase, fixtures, teams, n_teams, trace, params, fitted,
                   fit_pc, fit_idx, result, held, fits_started, fits_done,
                   published>>

\* the caller: del d[k] on the mapping get_params() returned
CallerDel(k) ==
    /\ held # 0
    /\ caller_writes < MaxCallerWrites
    /\ k \in DOMAIN heap[held]
    /\ heap' = [heap EXCEPT ![held] = DictDel(@, k)]
    /\ caller_writes' = caller_writes + 1
    /\ UNCHANGED <<phase, fixtures, teams, n_teams, trace, params, fitted,
                   fit_pc, fit_idx, result, held, fits_started, fits_done,
                   published>>

---------------------------------------------------------------------------
(* Sample spaces *)

\* m pooled samples of the raw variables, for each m in counts
Samples(n, counts, scalarVals, attVals, defVals) ==
    UNION {
        [home : [1..m -> {<<v, 1>> : v \in scalarVals}],
         intercept : [1..m -> {<<v, 1>> : v \in scalarVals}],
         atts_star : [1..m -> [1..n -> {<<v, 1>> : v \in attVals}]],
         def_star : [1..m -> [1..n -> {<<v, 1>> : v \in defVals}]]]
        : m \in counts}

LifecycleSamples == Samples(n_teams, {1}, {0, 1}, {0}, {0})

ConstructSamples == Samples(n_teams, {1}, {0}, {1}, {1})

CentringSamples ==
    Samples(n_teams, 1..MaxSamples, {0}, {-1, 2}, {0})
        \cup Samples(n_teams, 1..MaxSamples, {0}, {0}, {-1, 2})

RefitSamples == Samples(n_teams, {1}, {1}, {2}, {-1})

PredictNames == {PyStr(S_A), PyStr(S_B), PyStr(S_C), PyStr(S_X)}

---------------------------------------------------------------------------
(* Properties *)

\* the distinct team_home values of the fixtures
HomeTeams == {fixtures[i].team_home : i \in 1..Len(fixtures)}

\* every away team is a home team too, so that every row has both indices
AllIndexed == \A r \in 1..Len(fixtures) : fixtures[r].away_index # NaN

NotFittedMessages == {MsgPredictNotFitted, MsgGetParamsNotFitted}

\* C1: predict and get_params fail with the not-fitted error exactly when no
\* fit() call had completed on the instance when they were called: always on
\* a fresh model, whatever the arguments, and never again after one fit()
\* completed, whatever calls (failing fits included) follow.
C1_NotFittedIffNoFitDone ==
    result.op \in {"predict", "get_params"} =>
        ((result.exc = "ValueError" /\ result.msg \in NotFittedMessages)
            <=> result.done_at_call = 0)

\* a predict that succeeded after one fit() completed and another one failed
C1_Witness ==
    /\ result.op = "predict"
    /\ result.exc = ""
    /\ fits_done = 1
    /\ fits_started = 2
    /\ fit_pc = "idle"

\* C2: when fit() has failed on an unfitted model (and no other fit() is in
\* progress), the model is unfitted and the parameter store holds no entries
\* of the failed fit.  Stated for datasets in which every row has both indices.
C2_FailedFitLeavesStoreEmpty ==
    (AllIndexed /\ result.op = "fit" /\ result.exc # "" /\ fit_pc = "idle"
        /\ fits_done = 0) =>
        (~fitted /\ DOMAIN heap[params] = {})

\* C3: on a fitted model predict fails with the unknown-team error whenever
\* home_team or away_team is not among the distinct team_home values, the
\* home-side error differs from the away-side one, the home-side error is
\* the one reported when both are unknown, and none is raised when both
\* teams are known.
C3_UnknownTeam ==
    (result.op = "predict" /\ result.done_at_call > 0) =>
        /\ MsgNoHome # MsgNoAway
        /\ result.home_team \notin HomeTeams =>
              result.exc = "ValueError" /\ result.msg = MsgNoHome
        /\ (result.home_team \in HomeTeams /\ result.away_team \notin HomeTeams) =>
              result.exc = "ValueError" /\ result.msg = MsgNoAway
        /\ (result.home_team \in HomeTeams /\ result.away_team \in HomeTeams) =>
              result.msg \notin {MsgNoHome, MsgNoAway}

\* predict(A, C) on a fitted model whose fixtures have C as an away side only
C3_Witness ==
    /\ result.op = "predict"
    /\ result.done_at_call > 0
    /\ result.home_team = PyStr(S_A)
    /\ result.away_team = PyStr(S_C)
    /\ \E i \in 1..Len(fixtures) : fixtures[i].team_away = PyStr(S_C)
    /\ result.msg = MsgNoAway

\* C4: no model instance whose fixtures hold a negative goals_home, a
\* negative goals_away or a negative weight is ever reachable: construction
\* fails on such arguments.
C4_NoNegativeFixtures ==
    \A i \in 1..Len(fixtures) :
        /\ fixtures[i].goals_home >= 0
        /\ fixtures[i].goals_away >= 0
        /\ fixtures[i].weights >= 0

\* the keys the claim names, with the home-advantage parameter under homeKey
ExpectedKeys(homeKey) ==
    {homeKey, S_intercept}
        \cup {S_attack_ \o t.cp : t \in HomeTeams}
        \cup {S_defence_ \o t.cp : t \in HomeTeams}

C6_ReturnedMappingIsCopy ==
    [][(AllIndexed /\ caller_writes' # caller_writes)
        => heap'[params'] = heap[params]]_vars

\* C7: every get_params() that does not fail reads a parameter set that one
\* completed fit() published, never a mix of two fits.  Stated for datasets
\* in which every row has both indices.
C7_ReadsOnePublishedFit ==
    (AllIndexed /\ result.op = "get_params" /\ result.exc = "") =>
        result.value \in published

\* a < b on two str, by the first code points and then the rest
RECURSIVE LexLess(_, _)
LexLess(a, b) ==
    IF b = <<>> THEN FALSE
    ELSE IF a = <<>> THEN TRUE
    ELSE IF a[1] # b[1] THEN a[1] < b[1]
    ELSE LexLess(Tail(a), Tail(b))

C8_TeamIndexNow ==
    phase = "live" =>
        /\ n_teams = Cardinality(HomeTeams)
        /\ Len(teams) = n_teams
        /\ {teams[i] : i \in 1..Len(teams)} = HomeTeams
        /\ \A i \in 1..Len(teams), j \in 1..Len(teams) :
              i < j => LexLess(teams[i].cp, teams[j].cp)
        /\ \A r \in 1..Len(fixtures) :
              /\ fixtures[r].home_index \in 0..(n_teams - 1)
              /\ teams[fixtures[r].home_index + 1] = fixtures[r].team_home

\* C8: n_teams is the number of distinct team_home values, self.teams lists
\* them in ascending string order with indices 0..n_teams-1, every row's
\* home_index is the index of its team_home, and no call after construction
\* changes the teams, n_teams or the fixtures.
C8_TeamIndex ==
    /\ []C8_TeamIndexNow
    /\ [][phase = "live" =>
            (teams' = teams /\ n_teams' = n_teams /\ fixtures' = fixtures)]_vars

\* three teams given in descending order, after a fit() and a predict
C8_Witness ==
    /\ Len(fixtures) = 3
    /\ fixtures[1].team_home = PyStr(S_a)
    /\ fixtures[2].team_home = PyStr(S_B)
    /\ fixtures[3].team_home = PyStr(S_AB)
    /\ fixtures[1].home_index = 2
    /\ fits_done > 0
    /\ result.op = "predict"

\* the sum over the teams of the parameters stored in d under prefix
TeamSum(d, prefix) == RSum([i \in 1..Len(teams) |-> d[prefix \o teams[i].cp]])

\* C9: in every parameter store a fit() published, the attack parameters sum
\* to zero over the teams and so do the defence parameters.
C9_Centred ==
    \A d \in published :
        /\ TeamSum(d, S_attack_) = <<0, 1>>
        /\ TeamSum(d, S_defence_) = <<0, 1>>

\* a fit of three teams over two pooled samples that stored a non-zero attack
C9_Witness ==
    /\ Len(teams) = 3
    /\ Len(trace.atts) = 2
    /\ \E d \in published : d[S_attack_ \o teams[1].cp] # <<0, 1>>

\* an unknown-team error for the home side, on a fitted model
UnknownHome(r) ==
    /\ AllIndexed
    /\ r.op = "predict"
    /\ r.done_at_call > 0
    /\ r.home_team \notin HomeTeams

\* C10: the unknown-team messages for two different unknown names on the
\* same side differ (each one names the team that was passed).  Stated for
\* datasets in which every row has both indices.
C10_MessageNamesTeam ==
    [][(UnknownHome(result) /\ UnknownHome(result')
            /\ result.home_team # result'.home_team)
        => result.msg # result'.msg]_vars

---------------------------------------------------------------------------
(* Specifications *)

Init ==
    /\ phase = "new"
    /\ fixtures = <<>>
    /\ teams = <<>>
    /\ n_teams = 0
    /\ trace = NoTrace
    /\ params = 0
    /\ fitted = FALSE
    /\ heap = <<>>
    /\ fit_pc = "idle"
    /\ fit_idx = 0
    /\ result = NoResult
    /\ held = 0
    /\ fits_started = 0
    /\ fits_done = 0
    /\ published = {}
    /\ caller_writes = 0

Next ==
    \/ Construct(LifecycleInputs)
    \/ FitSample(LifecycleSamples, MaxFits)
    \/ FitSampleRaises
    \/ FitStoreHome
    \/ FitStoreIntercept
    \/ FitStoreAttack
    \/ FitStoreDefence
    \/ FitPublish
    \/ \E h \in PredictNames, a \in PredictNames : Predict(h, a)
    \/ GetParams

Spec == Init /\ [][Next]_vars

\* the calls, and a caller that writes to the mapping get_params() gave it
NextCaller ==
    \/ Construct(CallerInputs)
    \/ FitSample(LifecycleSamples, MaxFits)
    \/ FitStoreHome
    \/ FitStoreIntercept
    \/ FitStoreAttack
    \/ FitStoreDefence
    \/ FitPublish
    \/ Predict(PyStr(S_A), PyStr(S_A))
    \/ GetParams
    \/ \E k \in {S_home, S_junk} : CallerSet(k, <<7, 1>>)
    \/ CallerDel(S_intercept)

SpecCaller == Init /\ [][NextCaller]_vars

\* construction over a wide range of arguments, then the calls
NextConstruct ==
    \/ Construct(ConstructInputs)
    \/ FitSample(ConstructSamples, MaxFits)
    \/ FitSampleRaises
    \/ FitStoreHome
    \/ FitStoreIntercept
    \/ FitStoreAttack
    \/ FitStoreDefence
    \/ FitPublish
    \/ \E h \in {PyStr(S_A), PyStr(S_a)} : Predict(h, PyStr(S_A))
    \/ GetParams

SpecConstruct == Init /\ [][NextConstruct]_vars

\* fit() over a wide range of samples, then again over a narrow one
NextCentring ==
    \/ Construct(CentringInputs)
    \/ FitSample(CentringSamples, 1)
    \/ FitSample(RefitSamples, MaxFits)
    \/ FitStoreHome
    \/ FitStoreIntercept
    \/ FitStoreAttack
    \/ FitStoreDefence
    \/ FitPublish

SpecCentring == Init /\ [][NextCentring]_vars

====
